---- MODULE Spec2Model ----
(***************************************************************************)
(* A model of json_configs (src/json_configs/__init__.py): the per-context *)
(* type registry and access-control policy (class Context), the boxing     *)
(* protocol (box_type / unbox_type), the global hook registry              *)
(* (config_getter / config_setter and the built-in hooks), the reflective  *)
(* AutoConfigured capability and the dispatch layer (get_config /          *)
(* configure).                                                             *)
(*                                                                         *)
(* Python values are records [t, n, s, items, map]: t is the name of the   *)
(* value's runtime type, n the number of a bool / int / float, s the text  *)
(* of a str, items the elements of a list / tuple, map the entries of a    *)
(* dict or the public non-callable attributes of a class instance.         *)
(* A call either returns or raises: results are records [ok, err, val,     *)
(* ty, loc, mods], where mods is sys.modules after the call (get_type      *)
(* imports the module it resolves a class from).                           *)
(*                                                                         *)
(* Left out: per-registration provenance (registered_from, GET_CONFIG_FROM,*)
(* CONFIGURE_FROM: written together with the entry they describe and read  *)
(* only to format an error message), the datetime / set / frozenset /      *)
(* type hooks and WrapAutoConfig subclasses passed to register.            *)
(***************************************************************************)
EXTENDS Integers, Sequences, FiniteSets, TLC

VARIABLES CONTEXTS, GET_CONFIG_REGISTRY, CONFIGURE_REGISTRY, sys_modules, call

vars == <<CONTEXTS, GET_CONFIG_REGISTRY, CONFIGURE_REGISTRY, sys_modules, call>>

(***************************************************************************)
(* Bounds of the model.                                                    *)
(***************************************************************************)
\* longest list drawn as an input value
MaxLen == 1
\* most (module, class) bindings held by all registries together
MaxBindings == 2
\* most entries held by the four allow / deny sets of a context together
MaxPolicy == 2

(***************************************************************************)
(* Python values.                                                          *)
(***************************************************************************)
\* Python's None where a name is expected (module_name=None, context=None)
NoneName == "None"

EmptyMap == [k \in {} |-> 0]

Val(t, n, s, items, map) == [t |-> t, n |-> n, s |-> s, items |-> items, map |-> map]

NoneV == Val("NoneType", 0, "", <<>>, EmptyMap)
BoolV(b) == Val("bool", IF b THEN 1 ELSE 0, "", <<>>, EmptyMap)
IntV(n) == Val("int", n, "", <<>>, EmptyMap)
FloatV(n) == Val("float", n, "", <<>>, EmptyMap)
StrV(s) == Val("str", 0, s, <<>>, EmptyMap)
ListV(items) == Val("list", 0, "", items, EmptyMap)
TupleV(items) == Val("tuple", 0, "", items, EmptyMap)
DictV(map) == Val("dict", 0, "", <<>>, map)
\* a dict some of whose keys are not strings: the entries under those keys
\* are held as (key, value) pairs in insertion order, after the string keys
DictItemsV(pairs) == Val("dict", 0, "", pairs, EmptyMap)
\* an instance of a user class with its public non-callable attributes
InstV(cls, props) == Val(cls, 0, "", <<>>, props)

\* the three keys of a boxed value
BoxKeys == {"__module__", "__class__", "__instance__"}

\* dict(__module__=..., __class__=..., __instance__=...)
BoxV(module_name, class_name, config) ==
    DictV([k \in BoxKeys |-> CASE k = "__module__" -> StrV(module_name)
                               [] k = "__class__" -> StrV(class_name)
                               [] OTHER -> config])

\* isinstance(config, dict) and config.keys() == {'__module__', '__class__', '__instance__'}
IsBoxed(config) == config.t = "dict" /\ DOMAIN config.map = BoxKeys /\ config.items = <<>>

\* The order in which a dict's keys (and dir()'s names) are iterated: the
\* model holds only dicts whose insertion order is this one.
KeySeq == <<"__module__", "__class__", "__instance__", "a", "x">>

KeysOf(map) == SelectSeq(KeySeq, LAMBDA k : k \in DOMAIN map)

\* mapping.items(): the (key, value) pairs of a dict in iteration order
MappingItems(mapping) ==
    [i \in 1..Len(KeysOf(mapping.map)) |->
        Val("tuple", 0, "", <<Val("str", 0, KeysOf(mapping.map)[i], <<>>, EmptyMap),
                              mapping.map[KeysOf(mapping.map)[i]]>>, EmptyMap)]
    \o mapping.items

(***************************************************************************)
(* The types of the model and the modules they live in.                    *)
(***************************************************************************)
\* the names of dir(builtins) that are types: NoneType is not among them
BuiltinTypeNames == {"bool", "int", "float", "str", "list", "tuple", "dict"}

\* T: a module-level AutoConfigured class with one attribute x = None;
\* U: an AutoConfigured class local to a function (no attribute of its module);
\* P: a module-level plain class with one attribute x = None;
\* K: a plain class of a module that is not imported yet;
\* D: a module-level AutoConfigured class with one attribute x = 0, whose
\*    get_property_type declares int for x.
ConfigurableTypes == {"T", "U", "D"}
UserTypes == {"T", "U", "P", "D"}
Types == BuiltinTypeNames \cup {"NoneType"} \cup UserTypes \cup {"K"}

\* type_.__module__
TypeModule(type_) ==
    CASE type_ \in UserTypes -> "app"
      [] type_ = "K" -> "lib"
      [] OTHER -> "builtins"

\* type_.__name__
TypeName(type_) == type_

\* every module importlib.import_module can import
Modules == {"builtins", "app", "lib"}

\* the public names of a module and what getattr(module, name) is: a type
ModuleTypes(module_name) ==
    CASE module_name = "builtins" -> BuiltinTypeNames
      [] module_name = "app" -> {"T", "P", "D"}
      [] module_name = "lib" -> {"K"}
      [] OTHER -> {}

\* public names of a module that are not types
ModuleFunctions(module_name) ==
    CASE module_name = "app" -> {"helper"}
      [] OTHER -> {}

\* issubclass(type_, Configurable)
IsConfigurableClass(type_) == type_ \in ConfigurableTypes

\* isinstance(value, type_): bool is a subclass of int
IsInstance(value, type_) ==
    \/ value.t = type_
    \/ value.t = "bool" /\ type_ = "int"

\* cls(): the instance a class builds with no arguments
NewInstance(cls) ==
    IF cls = "U" THEN InstV(cls, EmptyMap)
    ELSE IF cls = "D" THEN InstV(cls, [k \in {"x"} |-> IntV(0)])
    ELSE InstV(cls, [k \in {"x"} |-> NoneV])

\* cls.get_property_type(property_name): the name of the declared type, or
\* NoneName. AutoConfigured declares none, and neither does the wrapper that
\* Context.register(auto=True) creates; D overrides it.
get_property_type(cls, property_name) ==
    IF cls = "D" /\ property_name = "x" THEN "int" ELSE NoneName

\* a type object held as a value
TypeV(type_) == Val("type", 0, type_, <<>>, EmptyMap)

(***************************************************************************)
(* Results of calls.                                                       *)
(***************************************************************************)
NoLoc == <<"", "">>

Ok(val, mods) == [ok |-> TRUE, err |-> "", val |-> val, ty |-> "", loc |-> NoLoc, mods |-> mods]
OkType(type_, mods) == [ok |-> TRUE, err |-> "", val |-> NoneV, ty |-> type_, loc |-> NoLoc, mods |-> mods]
OkLoc(loc, mods) == [ok |-> TRUE, err |-> "", val |-> NoneV, ty |-> "", loc |-> loc, mods |-> mods]
OkUnbox(type_, config, mods) == [ok |-> TRUE, err |-> "", val |-> config, ty |-> type_, loc |-> NoLoc, mods |-> mods]
Raise(err, mods) == [ok |-> FALSE, err |-> err, val |-> NoneV, ty |-> "", loc |-> NoLoc, mods |-> mods]

\* the errors raised, by what they mean and the Python exception class
AccessDeniedName == "AccessDenied/NameError"
AccessDeniedValue == "AccessDenied/ValueError"
NamingConflict == "NamingConflict/NameError"
NotConfigurable == "NotConfigurable/TypeError"

IsAccessDenied(err) == err \in {AccessDeniedName, AccessDeniedValue}

(***************************************************************************)
(* class Context                                                           *)
(***************************************************************************)
\* Context.__init__
NewContext(name) ==
    [name |-> name,
     registry |-> EmptyMap,
     location_map |-> EmptyMap,
     all_modules_allowed_by_default |-> FALSE,
     imported_modules_allowed_by_default |-> FALSE,
     public_classes_allowed_by_default |-> FALSE,
     specifically_allowed_modules |-> {"builtins"},
     specifically_denied_modules |-> {},
     specifically_allowed_classes |-> {<<"builtins", name_>> : name_ \in BuiltinTypeNames},
     specifically_denied_classes |-> {}]

\* Context.module_access_is_allowed
module_access_is_allowed(context, mods, module_name) ==
    IF module_name \in context.specifically_denied_modules THEN FALSE
    ELSE IF module_name \in context.specifically_allowed_modules THEN TRUE
    ELSE IF context.imported_modules_allowed_by_default
         THEN context.all_modules_allowed_by_default \/ module_name \in mods
    ELSE FALSE

\* Context.get_module with load_module=False (no caller passes True):
\* the module's name, or NoneName for None
get_module(context, mods, module_name) ==
    IF ~module_access_is_allowed(context, mods, module_name) THEN NoneName
    ELSE IF module_name \in mods THEN module_name
    ELSE NoneName

\* Context.get_public_names
get_public_names(module_name) == ModuleTypes(module_name) \cup ModuleFunctions(module_name)

\* Context.class_access_is_allowed
class_access_is_allowed(context, mods, module_name, class_name) ==
    IF <<module_name, class_name>> \in context.specifically_denied_classes THEN FALSE
    ELSE IF <<module_name, class_name>> \in context.specifically_allowed_classes THEN TRUE
    ELSE IF ~context.public_classes_allowed_by_default THEN FALSE
    ELSE LET module == get_module(context, mods, module_name)
         IN  IF module = NoneName THEN FALSE
             ELSE class_name \in get_public_names(module)

\* Context.get_type
get_type(context, mods, module_name, class_name) ==
    LET key == <<module_name, class_name>>
    IN  IF key \in DOMAIN context.registry THEN OkType(context.registry[key], mods)
        ELSE IF ~class_access_is_allowed(context, mods, module_name, class_name)
             THEN Raise(AccessDeniedName, mods)
        ELSE IF module_name \notin Modules THEN Raise("ModuleNotFoundError", mods)
        ELSE LET loaded == mods \cup {module_name}
             IN  IF class_name \in ModuleTypes(module_name) THEN OkType(class_name, loaded)
                 ELSE IF class_name \in ModuleFunctions(module_name) THEN Raise("TypeError", loaded)
                 ELSE Raise("AttributeError", loaded)

\* Context.locate for a type that is not in location_map, once get_type
\* has looked up its intrinsic location
locate_intrinsic(found, type_) ==
    IF ~found.ok THEN found
    ELSE IF found.ty # type_ THEN Raise(AccessDeniedValue, found.mods)
    ELSE OkLoc(<<TypeModule(type_), TypeName(type_)>>, found.mods)

\* Context.locate
locate(context, mods, type_) ==
    IF type_ \in DOMAIN context.location_map THEN OkLoc(context.location_map[type_], mods)
    ELSE locate_intrinsic(get_type(context, mods, TypeModule(type_), TypeName(type_)), type_)

(***************************************************************************)
(* The global registries.                                                  *)
(***************************************************************************)
\* the key of the default context in CONTEXTS is None
ContextNames == {NoneName, "alt"}

\* CONTEXTS after import
InitContexts == [c \in {NoneName} |-> NewContext("default")]

\* a hook registered with typed=False is the function itself; with
\* typed=True it is config_type_boxer's wrapper, which boxes for `boxer`
Getter(func, boxer) == [func |-> func, boxer |-> boxer]

\* GET_CONFIG_REGISTRY after import: the @config_getter decorations
InitGetters ==
    [type_ \in {"NoneType", "bool", "int", "float", "str", "list", "tuple", "dict"} |->
        CASE type_ = "list" -> Getter("get_iterable_config", "")
          [] type_ = "tuple" -> Getter("get_iterable_config", "tuple")
          [] type_ = "dict" -> Getter("get_mapping_config", "")
          [] OTHER -> Getter("get_simple_config", "")]

\* CONFIGURE_REGISTRY after import: the @config_setter decorations
InitSetters ==
    [type_ \in {"NoneType", "bool", "int", "float", "str", "list", "tuple", "dict"} |->
        CASE type_ \in {"list", "tuple"} -> "configure_iterable"
          [] type_ = "dict" -> "configure_mapping"
          [] OTHER -> "configure_simple"]

\* sys.modules after import, among the modules of the model
InitModules == {"builtins", "app"}

\* is_configurable
is_configurable(type_) ==
    \/ IsConfigurableClass(type_)
    \/ type_ \in DOMAIN GET_CONFIG_REGISTRY /\ type_ \in DOMAIN CONFIGURE_REGISTRY

(***************************************************************************)
(* Boxing protocol                                                         *)
(***************************************************************************)
RECURSIVE Hashable(_)
\* hash(value) does not raise
Hashable(value) ==
    /\ value.t \notin {"list", "dict"}
    /\ value.t = "tuple" => \A i \in 1..Len(value.items) : Hashable(value.items[i])

\* a mutant: box_type without the test for an already boxed value
box_type_always_wraps(where, config) ==
    IF ~where.ok THEN where
    ELSE Ok(BoxV(where.loc[1], where.loc[2], config), where.mods)

\* box_type once the type is located
box_type_at(where, config) ==
    IF ~where.ok THEN where
    ELSE IF /\ IsBoxed(config)
            /\ config.map["__module__"] = StrV(where.loc[1])
            /\ config.map["__class__"] = StrV(where.loc[2])
         THEN Ok(config, where.mods)
    ELSE Ok(BoxV(where.loc[1], where.loc[2], config), where.mods)

\* box_type
box_type(mods, type_, config, context) ==
    IF context \notin DOMAIN CONTEXTS THEN Raise("KeyError", mods)
    ELSE box_type_at(locate(CONTEXTS[context], mods, type_), config)

\* get_type called with the values held by a boxed mapping: an unhashable
\* value cannot be part of the registry key, and only a pair of strings can
\* name a registered, allowed or public class
get_type_of(context, mods, module_value, class_value) ==
    IF ~Hashable(module_value) \/ ~Hashable(class_value) THEN Raise("TypeError", mods)
    ELSE IF module_value.t # "str" \/ class_value.t # "str" THEN Raise(AccessDeniedName, mods)
    ELSE get_type(context, mods, module_value.s, class_value.s)

\* unbox_type once the tag is resolved
unbox_type_as(found, config) ==
    IF ~found.ok THEN found
    ELSE OkUnbox(found.ty, config.map["__instance__"], found.mods)

\* unbox_type
unbox_type(mods, config, context) ==
    IF IsBoxed(config)
    THEN IF context \notin DOMAIN CONTEXTS THEN Raise("KeyError", mods)
         ELSE unbox_type_as(get_type_of(CONTEXTS[context], mods,
                                        config.map["__module__"], config.map["__class__"]),
                            config)
    ELSE OkUnbox(config.t, config, mods)

(***************************************************************************)
(* Helpers of the hooks: iteration, Python's == and type_(value).          *)
(***************************************************************************)
SeqOk(seq, mods) == [ok |-> TRUE, err |-> "", seq |-> seq, mods |-> mods]
SeqRaise(err, mods) == [ok |-> FALSE, err |-> err, seq |-> <<>>, mods |-> mods]

\* the values of a mapping in the order of its keys
ValuesOf(map, keys) == [i \in 1..Len(keys) |-> map[keys[i]]]

\* the mapping built from keys and the values computed for them, in order
MapOf(keys, seq) ==
    [k \in {keys[i] : i \in 1..Len(keys)} |-> seq[CHOOSE i \in 1..Len(keys) : keys[i] = k]]

\* name.startswith('_'): the only such names of the model are the box keys
IsPrivate(name) == name \in BoxKeys

NumericTypes == {"bool", "int", "float"}

RECURSIVE PyEq(_, _)
\* a == b
PyEq(a, b) ==
    IF a.t \in NumericTypes /\ b.t \in NumericTypes THEN a.n = b.n
    ELSE IF a.t # b.t THEN FALSE
    ELSE IF a.t \in {"list", "tuple"}
         THEN /\ Len(a.items) = Len(b.items)
              /\ \A i \in 1..Len(a.items) : PyEq(a.items[i], b.items[i])
    ELSE IF a.t = "dict"
         THEN /\ DOMAIN a.map = DOMAIN b.map
              /\ \A k \in DOMAIN a.map : PyEq(a.map[k], b.map[k])
              /\ Len(a.items) = Len(b.items)
              /\ \A i \in 1..Len(a.items) : \E j \in 1..Len(b.items) :
                     /\ PyEq(a.items[i].items[1], b.items[j].items[1])
                     /\ PyEq(a.items[i].items[2], b.items[j].items[2])
    ELSE a = b

\* setattr(instance, name, value)
SetAttr(instance, name, value) ==
    [instance EXCEPT !.map = [k \in DOMAIN instance.map \cup {name} |->
                                 IF k = name THEN value ELSE instance.map[k]]]

\* bool(value)
Truth(value) ==
    CASE value.t = "NoneType" -> FALSE
      [] value.t \in NumericTypes -> value.n # 0
      [] value.t = "str" -> value.s # ""
      [] value.t \in {"list", "tuple"} -> value.items # <<>>
      [] value.t = "dict" -> DOMAIN value.map # {} \/ value.items # <<>>
      [] OTHER -> TRUE

\* type_(value), the conversion configure falls back to. The strings of the
\* model spell no number; a conversion the model does not cover is the
\* error "Unmodelled", which no call of the model reaches.
Convert(mods, type_, value) ==
    IF type_ = "bool" THEN Ok(BoolV(Truth(value)), mods)
    ELSE IF type_ \in {"int", "float"}
         THEN IF value.t \in NumericTypes
              THEN Ok(Val(type_, value.n, "", <<>>, EmptyMap), mods)
              ELSE IF value.t = "str" THEN Raise("ValueError", mods)
              ELSE Raise("TypeError", mods)
    ELSE IF type_ \in {"list", "tuple"}
         THEN IF value.t \in {"generator", "list", "tuple"}
              THEN Ok(Val(type_, 0, "", value.items, EmptyMap), mods)
              ELSE IF value.t = "dict"
              THEN Ok(Val(type_, 0, "", [i \in 1..Len(MappingItems(value)) |->
                                            MappingItems(value)[i].items[1]], EmptyMap), mods)
              ELSE IF value.t = "str"
              THEN IF value.s = "" THEN Ok(Val(type_, 0, "", <<>>, EmptyMap), mods)
                   ELSE Raise("Unmodelled", mods)
              ELSE Raise("TypeError", mods)
    ELSE IF type_ = "dict"
         THEN IF value.t \in {"generator", "list", "tuple"} /\ value.items = <<>>
              THEN Ok(DictV(EmptyMap), mods)
              ELSE IF value.t \in {"NoneType"} \cup NumericTypes THEN Raise("TypeError", mods)
              ELSE Raise("Unmodelled", mods)
    ELSE IF type_ \in {"NoneType"} \cup UserTypes \cup {"K"} THEN Raise("TypeError", mods)
    ELSE Raise("Unmodelled", mods)

(***************************************************************************)
(* Encoding: get_config, the built-in getters, AutoConfigured.get_config   *)
(***************************************************************************)
RECURSIVE get_config(_, _, _, _), EncodeItems(_, _, _), EncodeRest(_, _, _)
RECURSIVE EncodePairs(_, _, _), EncodePairValue(_, _, _), EncodePairRest(_, _, _, _)
RECURSIVE DecodePairs(_, _, _, _), DecodePairKey(_, _, _, _, _)
RECURSIVE DecodePairValue(_, _, _, _, _), DecodePairInsert(_, _, _, _, _)
RECURSIVE DecodeEntries(_, _, _, _), DecodeEntry(_, _, _, _, _)
RECURSIVE EncodeProperty(_, _, _, _), EncodePropertyRest(_, _, _, _)
RECURSIVE configure(_, _, _, _), DecodeItems(_, _, _), DecodeRest(_, _, _)
RECURSIVE ConfigureProperties(_, _, _, _, _)

\* a list with value put before the values of rest
Prepend(value, rest) ==
    IF ~rest.ok THEN rest ELSE SeqOk(<<value>> \o rest.seq, rest.mods)

\* the list a comprehension builds
ListOf(got) ==
    IF ~got.ok THEN Raise(got.err, got.mods) ELSE Ok(ListV(got.seq), got.mods)

\* the dict a comprehension builds for these keys
DictOf(keys, got) ==
    IF ~got.ok THEN Raise(got.err, got.mods) ELSE Ok(DictV(MapOf(keys, got.seq)), got.mods)

\* the generator a generator expression builds, once it is consumed
GeneratorOf(got) ==
    IF ~got.ok THEN Raise(got.err, got.mods)
    ELSE Ok(Val("generator", 0, "", got.seq, EmptyMap), got.mods)

\* [get_config(value, context=context) for value in items]
EncodeItems(mods, items, context) ==
    IF items = <<>> THEN SeqOk(<<>>, mods)
    ELSE EncodeRest(get_config(mods, Head(items), "None", context), Tail(items), context)

\* the rest of the comprehension once its first element is encoded
EncodeRest(head, tail, context) ==
    IF ~head.ok THEN SeqRaise(head.err, head.mods)
    ELSE Prepend(head.val, EncodeItems(head.mods, tail, context))

\* get_simple_config
get_simple_config(mods, x) == Ok(x, mods)

\* get_iterable_config
get_iterable_config(mods, iterable, context) ==
    ListOf(EncodeItems(mods, iterable.items, context))

\* [[get_config(key, context=context), get_config(value, context=context)]
\*  for key, value in pairs]
EncodePairs(mods, pairs, context) ==
    IF pairs = <<>> THEN SeqOk(<<>>, mods)
    ELSE EncodePairValue(get_config(mods, Head(pairs).items[1], "None", context), pairs, context)

\* the value of the first pair once its key is encoded
EncodePairValue(key, pairs, context) ==
    IF ~key.ok THEN SeqRaise(key.err, key.mods)
    ELSE EncodePairRest(key.val, get_config(key.mods, Head(pairs).items[2], "None", context),
                        Tail(pairs), context)

\* the rest of the comprehension once the first pair is encoded
EncodePairRest(key_config, value, tail, context) ==
    IF ~value.ok THEN SeqRaise(value.err, value.mods)
    ELSE Prepend(ListV(<<key_config, value.val>>), EncodePairs(value.mods, tail, context))

\* box_type(type(mapping), pairs): the call names no context, so the type
\* is located in the default context
BoxPairs(got) ==
    IF ~got.ok THEN Raise(got.err, got.mods)
    ELSE box_type(got.mods, "dict", ListV(got.seq), NoneName)

\* get_mapping_config
get_mapping_config(mods, mapping, context) ==
    IF mapping.items = <<>>
    THEN DictOf(KeysOf(mapping.map),
                EncodeItems(mods, ValuesOf(mapping.map, KeysOf(mapping.map)), context))
    ELSE BoxPairs(EncodePairs(mods, MappingItems(mapping), context))

\* the public names among dir(instance)
PublicNames(instance) == SelectSeq(KeysOf(instance.map), LAMBDA k : ~IsPrivate(k))

\* property_config = unbox_type(property_config, context=context): the
\* (type, configuration) pair unbox_type returns is what the name is bound to
UnboxedProperty(plain) ==
    IF ~plain.ok THEN plain ELSE Ok(TupleV(<<TypeV(plain.ty), plain.val>>), plain.mods)

\* the entry stored for a property once its value is encoded
StoredProperty(property_config, property_type, context) ==
    IF ~property_config.ok \/ property_type = NoneName THEN property_config
    ELSE UnboxedProperty(unbox_type(property_config.mods, property_config.val, context))

\* the property loop of AutoConfigured.get_config and WrapAutoConfig.get_config
\* from the property names still to visit
EncodeProperty(mods, instance, names, context) ==
    IF names = <<>> THEN SeqOk(<<>>, mods)
    ELSE EncodePropertyRest(StoredProperty(get_config(mods, instance.map[Head(names)],
                                                      "None", context),
                                           get_property_type(instance.t, Head(names)),
                                           context),
                            instance, Tail(names), context)

\* the rest of the loop once the entry of one property is stored
EncodePropertyRest(head, instance, names, context) ==
    IF ~head.ok THEN SeqRaise(head.err, head.mods)
    ELSE Prepend(head.val, EncodeProperty(head.mods, instance, names, context))

\* the property loop of AutoConfigured.get_config and WrapAutoConfig.get_config
EncodeProperties(mods, instance, context) ==
    DictOf(PublicNames(instance),
           EncodeProperty(mods, instance, PublicNames(instance), context))

\* AutoConfigured.get_config
AutoConfigured_get_config(mods, self, context) == EncodeProperties(mods, self, context)

\* WrapAutoConfig.get_config
WrapAutoConfig_get_config(mods, instance, context) == EncodeProperties(mods, instance, context)

\* config_type_boxer's wrapper around a getter registered with typed=True
BoxGetterResult(getter, plain, context) ==
    IF ~plain.ok \/ getter.boxer = "" THEN plain
    ELSE box_type(plain.mods, getter.boxer, plain.val, context)

\* a call of GET_CONFIG_REGISTRY[type(obj)](obj, context); a function the
\* user registered returns its own name as the configuration
CallGetter(mods, getter, obj, context) ==
    BoxGetterResult(getter,
                    CASE getter.func = "get_simple_config" -> get_simple_config(mods, obj)
                      [] getter.func = "get_iterable_config" -> get_iterable_config(mods, obj, context)
                      [] getter.func = "get_mapping_config" -> get_mapping_config(mods, obj, context)
                      [] getter.func = "WrapAutoConfig.get_config" ->
                             WrapAutoConfig_get_config(mods, obj, context)
                      [] OTHER -> Ok(StrV(getter.func), mods),
                    context)

\* the result of unbox_type without the type
Untyped(plain) == IF ~plain.ok THEN plain ELSE Ok(plain.val, plain.mods)

\* get_config once the configuration is made: the typed flag
get_config_typed(config, obj, typed, context) ==
    IF ~config.ok THEN config
    ELSE IF typed = "True" \/ (typed = "None" /\ IsConfigurableClass(obj.t))
         THEN box_type(config.mods, obj.t, config.val, context)
    ELSE IF typed # "None" THEN Untyped(unbox_type(config.mods, config.val, context))
    ELSE config

\* get_config; typed is "None", "True" or "False"
get_config(mods, obj, typed, context) ==
    get_config_typed(IF IsConfigurableClass(obj.t) THEN AutoConfigured_get_config(mods, obj, context)
                     ELSE IF obj.t \in DOMAIN GET_CONFIG_REGISTRY
                          THEN CallGetter(mods, GET_CONFIG_REGISTRY[obj.t], obj, context)
                     ELSE Raise(NotConfigurable, mods),
                     obj, typed, context)

(***************************************************************************)
(* Decoding: configure, the built-in setters, AutoConfigured.configure     *)
(***************************************************************************)
\* (configure(value_config, context=context) for value_config in items)
DecodeItems(mods, items, context) ==
    IF items = <<>> THEN SeqOk(<<>>, mods)
    ELSE DecodeRest(configure(mods, Head(items), NoneV, context), Tail(items), context)

\* the rest of the generator once its first element is decoded
DecodeRest(head, tail, context) ==
    IF ~head.ok THEN SeqRaise(head.err, head.mods)
    ELSE Prepend(head.val, DecodeItems(head.mods, tail, context))

\* configure_simple
configure_simple(mods, config, instance) ==
    IF PyEq(config, instance) THEN Ok(instance, mods) ELSE Ok(config, mods)

\* configure_iterable: the generator it returns is consumed by type_(result)
\* in configure, so its elements are decoded here
configure_iterable(mods, config, context) ==
    IF config.t # "list" THEN Raise("AssertionError", mods)
    ELSE GeneratorOf(DecodeItems(mods, config.items, context))

\* key_config, value_config = element: the two values an element of the
\* list unpacks to. No string of the model has two characters.
Unpack(element, mods) ==
    IF element.t \in {"list", "tuple"}
    THEN IF Len(element.items) = 2 THEN SeqOk(element.items, mods)
         ELSE SeqRaise("ValueError", mods)
    ELSE IF element.t = "dict"
    THEN IF Len(MappingItems(element)) = 2
         THEN SeqOk(<<MappingItems(element)[1].items[1], MappingItems(element)[2].items[1]>>, mods)
         ELSE SeqRaise("ValueError", mods)
    ELSE IF element.t = "str" THEN SeqRaise("ValueError", mods)
    ELSE SeqRaise("TypeError", mods)

\* mapping[key] = value: a key equal to one already held keeps that key
SetItem(mapping, key, value) ==
    IF key.t = "str"
    THEN [mapping EXCEPT !.map = [k \in DOMAIN mapping.map \cup {key.s} |->
                                     IF k = key.s THEN value ELSE mapping.map[k]]]
    ELSE IF \E i \in 1..Len(mapping.items) : PyEq(mapping.items[i].items[1], key)
    THEN [mapping EXCEPT !.items = [i \in 1..Len(mapping.items) |->
                                       IF PyEq(mapping.items[i].items[1], key)
                                       THEN TupleV(<<mapping.items[i].items[1], value>>)
                                       ELSE mapping.items[i]]]
    ELSE [mapping EXCEPT !.items = Append(mapping.items, TupleV(<<key, value>>))]

\* {configure(key_config, context=context): configure(value_config, context=context)
\*  for key_config, value_config in items}, with the entries built so far
DecodePairs(mods, items, mapping, context) ==
    IF items = <<>> THEN Ok(mapping, mods)
    ELSE DecodePairKey(Unpack(Head(items), mods), mods, items, mapping, context)

\* the key of the first element once the element is unpacked
DecodePairKey(pair, mods, items, mapping, context) ==
    IF ~pair.ok THEN Raise(pair.err, mods)
    ELSE DecodePairValue(configure(mods, pair.seq[1], NoneV, context), pair.seq[2],
                         Tail(items), mapping, context)

\* the value of the first element once its key is decoded
DecodePairValue(key, value_config, tail, mapping, context) ==
    IF ~key.ok THEN key
    ELSE DecodePairInsert(key.val, configure(key.mods, value_config, NoneV, context),
                          tail, mapping, context)

\* the entry of the first element once it is decoded. A string key outside
\* the iteration order of the model is the error "Unmodelled", which no
\* call of the model reaches.
DecodePairInsert(key, value, tail, mapping, context) ==
    IF ~value.ok THEN value
    ELSE IF ~Hashable(key) THEN Raise("TypeError", value.mods)
    ELSE IF key.t = "str" /\ key.s \notin {KeySeq[i] : i \in 1..Len(KeySeq)}
         THEN Raise("Unmodelled", value.mods)
    ELSE DecodePairs(value.mods, tail, SetItem(mapping, key, value.val), context)

\* {key: configure(value_config, context=context)
\*  for key, value_config in pairs}, with the entries built so far
DecodeEntries(mods, pairs, mapping, context) ==
    IF pairs = <<>> THEN Ok(mapping, mods)
    ELSE DecodeEntry(Head(pairs).items[1],
                     configure(mods, Head(pairs).items[2], NoneV, context),
                     Tail(pairs), mapping, context)

\* the entry of the first pair once its value is decoded
DecodeEntry(key, value, tail, mapping, context) ==
    IF ~value.ok THEN value
    ELSE DecodeEntries(value.mods, tail, SetItem(mapping, key, value.val), context)

\* configure_mapping
configure_mapping(mods, config, context) ==
    IF config.t = "dict"
    THEN IF config.items = <<>>
         THEN DictOf(KeysOf(config.map),
                     DecodeItems(mods, ValuesOf(config.map, KeysOf(config.map)), context))
         ELSE DecodeEntries(mods, MappingItems(config), DictV(EmptyMap), context)
    ELSE IF config.t # "list" THEN Raise("AssertionError", mods)
    ELSE DecodePairs(mods, config.items, DictV(EmptyMap), context)

\* getattr(instance, property_name, None)
GetAttr(instance, property_name) ==
    IF property_name \in DOMAIN instance.map THEN instance.map[property_name] ELSE NoneV

\* one turn of the property loop once the property's value is decoded: the
\* value is assigned unless it equals the old one (an instance configure
\* returns is the old one updated in place)
AssignProperty(decoded, old_property_value, instance, map, keys, context) ==
    IF ~decoded.ok THEN decoded
    ELSE IF decoded.val.t \notin UserTypes /\ PyEq(old_property_value, decoded.val)
         THEN ConfigureProperties(decoded.mods, instance, map, Tail(keys), context)
    ELSE ConfigureProperties(decoded.mods, SetAttr(instance, Head(keys), decoded.val),
                             map, Tail(keys), context)

\* configure(property_config, old_property_value, context=context) for the
\* configuration box_type made of the entry of a property with a declared type
ConfigureBoxedProperty(boxed, old_property_value, context) ==
    IF ~boxed.ok THEN boxed
    ELSE configure(boxed.mods, boxed.val, old_property_value, context)

\* the old value of a property as the loop keeps it: None when a type is
\* declared and the old value is not an instance of it
OldPropertyValue(instance, property_name) ==
    IF \/ get_property_type(instance.t, property_name) = NoneName
       \/ IsInstance(GetAttr(instance, property_name),
                     get_property_type(instance.t, property_name))
    THEN GetAttr(instance, property_name)
    ELSE NoneV

\* the value decoded for one property
ConfigureProperty(mods, instance, property_name, property_config, context) ==
    IF get_property_type(instance.t, property_name) = NoneName
    THEN configure(mods, property_config, OldPropertyValue(instance, property_name), context)
    ELSE ConfigureBoxedProperty(box_type(mods, get_property_type(instance.t, property_name),
                                         property_config, context),
                                OldPropertyValue(instance, property_name), context)

\* the property loop of AutoConfigured.configure and WrapAutoConfig.configure
ConfigureProperties(mods, instance, map, keys, context) ==
    IF keys = <<>> THEN Ok(instance, mods)
    ELSE IF IsPrivate(Head(keys))
         THEN ConfigureProperties(mods, instance, map, Tail(keys), context)
    ELSE AssignProperty(ConfigureProperty(mods, instance, Head(keys), map[Head(keys)], context),
                        OldPropertyValue(instance, Head(keys)),
                        instance, map, keys, context)

\* AutoConfigured.configure and WrapAutoConfig.configure once the
\* configuration is unboxed: the assertions, the instance, the property loop
ConfigureInstance(plain, cls, instance, context) ==
    IF ~plain.ok THEN plain
    ELSE IF plain.ty \notin {"dict", cls} THEN Raise("AssertionError", plain.mods)
    ELSE IF plain.val.t # "dict" THEN Raise("AssertionError", plain.mods)
    ELSE IF DOMAIN plain.val.map = BoxKeys THEN Raise("AssertionError", plain.mods)
    ELSE ConfigureProperties(plain.mods,
                             IF IsInstance(instance, cls) THEN instance ELSE NewInstance(cls),
                             plain.val.map, KeysOf(plain.val.map), context)

\* AutoConfigured.configure
AutoConfigured_configure(mods, cls, config, instance, context) ==
    ConfigureInstance(unbox_type(mods, config, context), cls, instance, context)

\* WrapAutoConfig.configure for a wrapper without init_args / init_kwargs
WrapAutoConfig_configure(mods, wrapped, config, instance, context) ==
    ConfigureInstance(unbox_type(mods, config, context), wrapped, instance, context)

\* a call of CONFIGURE_REGISTRY[type_](config, instance, context); a function
\* the user registered returns the existing instance, or else the configuration
CallSetter(mods, func, type_, config, instance, context) ==
    CASE func = "configure_simple" -> configure_simple(mods, config, instance)
      [] func = "configure_iterable" -> configure_iterable(mods, config, context)
      [] func = "configure_mapping" -> configure_mapping(mods, config, context)
      [] func = "WrapAutoConfig.configure" ->
             WrapAutoConfig_configure(mods, type_, config, instance, context)
      [] OTHER -> IF instance # NoneV THEN Ok(instance, mods) ELSE Ok(config, mods)

\* a mutant: configure returns what the decoder returned, unconverted
configure_unconverted(type_, result) == result

\* configure once the decoder returned: the conversion fallback
configure_converted(type_, result) ==
    IF ~result.ok THEN result
    ELSE IF IsInstance(result.val, type_) THEN result
    ELSE Convert(result.mods, type_, result.val)

\* configure once the configuration is unboxed: the dispatch to a decoder
configure_dispatch(mods, type_, config, instance, context) ==
    IF IsConfigurableClass(type_)
    THEN AutoConfigured_configure(mods, type_, config, instance, context)
    ELSE IF type_ \in DOMAIN CONFIGURE_REGISTRY
         THEN CallSetter(mods, CONFIGURE_REGISTRY[type_], type_, config, instance, context)
    ELSE Raise(NotConfigurable, mods)

\* a mutant: the decoder receives the existing instance whatever its type
configure_keeps_instance(plain, instance, context) ==
    IF ~plain.ok THEN plain
    ELSE configure_converted(plain.ty,
                             configure_dispatch(plain.mods, plain.ty, plain.val, instance, context))

\* configure once the configuration is unboxed
configure_unboxed(plain, instance, context) ==
    IF ~plain.ok THEN plain
    ELSE configure_converted(plain.ty,
                             configure_dispatch(plain.mods, plain.ty, plain.val,
                                                IF IsInstance(instance, plain.ty)
                                                THEN instance ELSE NoneV,
                                                context))

\* configure
configure(mods, config, instance, context) ==
    configure_unboxed(unbox_type(mods, config, context), instance, context)

(***************************************************************************)
(* Registration: Context.register, auto_config, config_getter,             *)
(* config_setter. Each returns the state it leaves and whether it raised.  *)
(***************************************************************************)
\* the mapping f with key k bound to v
Bind(f, k, v) == [x \in DOMAIN f \cup {k} |-> IF x = k THEN v ELSE f[x]]

\* the mapping f without key k
Unbind(f, k) == [x \in DOMAIN f \ {k} |-> f[x]]

HooksOk(getters, setters) == [ok |-> TRUE, err |-> "", getters |-> getters, setters |-> setters]
HooksRaise(err, getters, setters) == [ok |-> FALSE, err |-> err, getters |-> getters, setters |-> setters]

\* the types a hook is registered for
Named(types) == {types[i] : i \in 1..Len(types)}

\* config_getter(*types, typed=typed, func=func, overwrite=overwrite), and with
\* decorator its two-step form config_getter(*types, typed=typed,
\* overwrite=overwrite)(func): the lambda it returns calls config_getter
\* again without the overwrite flag
config_getter(getters, types, typed, func, overwrite, decorator) ==
    LET taken == \E i \in 1..Len(types) : types[i] \in DOMAIN getters
        wrapper(type_) == Getter(func, IF typed THEN type_ ELSE "")
        bound == [type_ \in DOMAIN getters \cup Named(types) |->
                     IF type_ \in Named(types) THEN wrapper(type_) ELSE getters[type_]]
    IN  IF ~overwrite /\ taken THEN [ok |-> FALSE, err |-> NamingConflict, registry |-> getters]
        ELSE IF decorator /\ taken THEN [ok |-> FALSE, err |-> NamingConflict, registry |-> getters]
        ELSE [ok |-> TRUE, err |-> "", registry |-> bound]

\* config_setter(*types, func=func, overwrite=overwrite), and with decorator
\* its two-step form config_setter(*types, overwrite=overwrite)(func)
config_setter(setters, types, func, overwrite, decorator) ==
    LET taken == \E i \in 1..Len(types) : types[i] \in DOMAIN setters
        bound == [type_ \in DOMAIN setters \cup Named(types) |->
                     IF type_ \in Named(types) THEN func ELSE setters[type_]]
    IN  IF ~overwrite /\ taken THEN [ok |-> FALSE, err |-> NamingConflict, registry |-> setters]
        ELSE IF decorator /\ taken THEN [ok |-> FALSE, err |-> NamingConflict, registry |-> setters]
        ELSE [ok |-> TRUE, err |-> "", registry |-> bound]

\* auto_config(type_): WrapAutoConfig.__post_init__ registers the wrapper's
\* get_config and then its configure for the wrapped type
auto_config(getters, setters, type_) ==
    LET got == config_getter(getters, <<type_>>, TRUE, "WrapAutoConfig.get_config", FALSE, FALSE)
        set == config_setter(setters, <<type_>>, "WrapAutoConfig.configure", FALSE, FALSE)
    IN  IF ~got.ok THEN HooksRaise(got.err, getters, setters)
        ELSE IF ~set.ok THEN HooksRaise(set.err, got.registry, setters)
        ELSE HooksOk(got.registry, set.registry)

CtxOk(context) == [ok |-> TRUE, err |-> "", context |-> context]
CtxRaise(err, context) == [ok |-> FALSE, err |-> err, context |-> context]

\* a mutant: overwriting a pair leaves the old type's location in place
register_keeps_location(context, type_, module_name, class_name, overwrite) ==
    LET key == <<IF module_name = NoneName THEN TypeModule(type_) ELSE module_name,
                 IF class_name = NoneName THEN TypeName(type_) ELSE class_name>>
    IN  IF ~(overwrite \/ key \notin DOMAIN context.registry \/ context.registry[key] = type_)
        THEN CtxRaise(NamingConflict, context)
        ELSE CtxOk([context EXCEPT !.registry = Bind(context.registry, key, type_),
                                   !.location_map = Bind(context.location_map, type_, key)])

\* a mutant: the overwrite flag is not consulted
register_ignores_conflict(context, type_, module_name, class_name, overwrite) ==
    LET key == <<IF module_name = NoneName THEN TypeModule(type_) ELSE module_name,
                 IF class_name = NoneName THEN TypeName(type_) ELSE class_name>>
        old == context.registry[key]
        cleared == IF key \in DOMAIN context.registry /\ old \in DOMAIN context.location_map
                   THEN Unbind(context.location_map, old) ELSE context.location_map
    IN  CtxOk([context EXCEPT !.registry = Bind(context.registry, key, type_),
                              !.location_map = Bind(cleared, type_, key)])

\* Context.register for one type, after its auto step (lines 111-126)
register(context, type_, module_name, class_name, overwrite) ==
    LET key == <<IF module_name = NoneName THEN TypeModule(type_) ELSE module_name,
                 IF class_name = NoneName THEN TypeName(type_) ELSE class_name>>
        old == context.registry[key]
    IN  IF ~(overwrite \/ key \notin DOMAIN context.registry \/ context.registry[key] = type_)
        THEN CtxRaise(NamingConflict, context)
        ELSE IF overwrite /\ key \in DOMAIN context.registry /\ old \notin DOMAIN context.location_map
             THEN CtxRaise("KeyError", context)
        ELSE LET cleared == IF overwrite /\ key \in DOMAIN context.registry
                            THEN Unbind(context.location_map, old) ELSE context.location_map
             IN  CtxOk([context EXCEPT !.registry = Bind(context.registry, key, type_),
                                       !.location_map = Bind(cleared, type_, key)])

(***************************************************************************)
(* The inputs the calls are made with.                                     *)
(***************************************************************************)
Scalars == {NoneV, BoolV(TRUE), IntV(0), FloatV(0), StrV("a")}

\* the (module, class) tags carried by the box-shaped mappings drawn as input
BoxTags == {<<"builtins", "int">>, <<"app", "T">>}

\* lists of at most MaxLen elements of S
ListsOf(S) == {ListV(items) : items \in UNION {[1..n -> S] : n \in 0..MaxLen}}

\* string-keyed mappings over S: empty, one key, and the three box keys
DictsOf(S) ==
    {DictV(EmptyMap)}
    \cup {DictV([k \in {key} |-> v]) : key \in {"a", "__instance__"}, v \in S}
    \cup {BoxV(tag[1], tag[2], v) : tag \in BoxTags, v \in S}

\* JSON values nested one and two levels deep
Level1 == Scalars \cup ListsOf(Scalars) \cup DictsOf(Scalars)
JsonValues == Scalars \cup ListsOf(Level1) \cup DictsOf(Level1)

RECURSIVE HasBoxShape(_)
\* some mapping inside the value has exactly the three box keys
HasBoxShape(value) ==
    \/ IsBoxed(value)
    \/ \E i \in 1..Len(value.items) : HasBoxShape(value.items[i])
    \/ \E k \in DOMAIN value.map : HasBoxShape(value.map[k])

\* instances of the user classes
Instances ==
    {InstV("T", [k \in {"x"} |-> v]) : v \in {NoneV, IntV(0)}}
    \cup {InstV("U", EmptyMap), InstV("P", [k \in {"x"} |-> NoneV])}

\* the types register is called with, and the names it is given
RegisterTypes == {"T", "U", "P"}
RegisterModules == {NoneName, "cfg"}
RegisterClasses == {NoneName, "X"}

\* the types hooks are registered for, one or two at a time, and the functions
HookTypeLists == {<<"P">>, <<"int">>, <<"P", "int">>}
HookFuncs == {"f", "g"}

TypedFlags == {"None", "True", "False"}

(***************************************************************************)
(* State: the global registries, sys.modules and the last call made.       *)
(***************************************************************************)
NoCall ==
    [op |-> "none", context |-> NoneName, from_context |-> NoneName, type_ |-> "",
     types |-> <<>>, module_name |-> NoneName, class_name |-> NoneName,
     overwrite |-> FALSE, auto |-> FALSE, decorator |-> FALSE, func |-> "",
     typed |-> "None", obj |-> NoneV, config |-> NoneV, instance |-> NoneV,
     chained |-> FALSE,
     res |-> Ok(NoneV, {})]

Init ==
    /\ CONTEXTS = InitContexts
    /\ GET_CONFIG_REGISTRY = InitGetters
    /\ CONFIGURE_REGISTRY = InitSetters
    /\ sys_modules = InitModules
    /\ call = NoCall

Idle == call.op = "none"

\* the caller takes the result; the next call can be made
Return ==
    /\ ~Idle
    /\ call' = NoCall
    /\ UNCHANGED <<CONTEXTS, GET_CONFIG_REGISTRY, CONFIGURE_REGISTRY, sys_modules>>

\* all registries together hold this many (module, class) bindings
Bindings(contexts) ==
    LET RECURSIVE Sum(_)
        Sum(S) == IF S = {} THEN 0
                  ELSE LET c == CHOOSE c \in S : TRUE
                       IN  Cardinality(DOMAIN contexts[c].registry) + Sum(S \ {c})
    IN  Sum(DOMAIN contexts)

\* get_context(name, add=add)
GetContextCall ==
    \E name \in ContextNames, add \in BOOLEAN :
        /\ Idle
        /\ IF name \in DOMAIN CONTEXTS
           THEN /\ CONTEXTS' = CONTEXTS
                /\ call' = [NoCall EXCEPT !.op = "get_context", !.context = name, !.overwrite = add]
           ELSE IF add
           THEN /\ CONTEXTS' = Bind(CONTEXTS, name, NewContext(name))
                /\ call' = [NoCall EXCEPT !.op = "get_context", !.context = name, !.overwrite = add]
           ELSE /\ CONTEXTS' = CONTEXTS
                /\ call' = [NoCall EXCEPT !.op = "get_context", !.context = name, !.overwrite = add,
                                          !.res = Raise("KeyError", sys_modules)]
        /\ UNCHANGED <<GET_CONFIG_REGISTRY, CONFIGURE_REGISTRY, sys_modules>>

\* context.register(type_, module_name, class_name, overwrite=overwrite, auto=auto)
RegisterCall ==
    \E context \in DOMAIN CONTEXTS, type_ \in RegisterTypes, module_name \in RegisterModules,
       class_name \in RegisterClasses, overwrite \in BOOLEAN, auto \in BOOLEAN :
        LET hooks == IF auto /\ ~is_configurable(type_)
                     THEN auto_config(GET_CONFIG_REGISTRY, CONFIGURE_REGISTRY, type_)
                     ELSE HooksOk(GET_CONFIG_REGISTRY, CONFIGURE_REGISTRY)
            done == register(CONTEXTS[context], type_, module_name, class_name, overwrite)
            made == [NoCall EXCEPT !.op = "register", !.context = context, !.type_ = type_,
                                   !.module_name = module_name, !.class_name = class_name,
                                   !.overwrite = overwrite, !.auto = auto]
        IN  /\ Idle
            /\ GET_CONFIG_REGISTRY' = hooks.getters
            /\ CONFIGURE_REGISTRY' = hooks.setters
            /\ IF ~hooks.ok
               THEN /\ CONTEXTS' = CONTEXTS
                    /\ call' = [made EXCEPT !.res = Raise(hooks.err, sys_modules)]
               ELSE /\ CONTEXTS' = [CONTEXTS EXCEPT ![context] = done.context]
                    /\ call' = [made EXCEPT !.res = IF done.ok THEN OkType(type_, sys_modules)
                                                    ELSE Raise(done.err, sys_modules)]
            /\ Bindings(CONTEXTS') <= MaxBindings
            /\ UNCHANGED sys_modules

\* config_getter(*types, typed=typed, func=func, overwrite=overwrite), directly
\* or as a decorator
ConfigGetterCall ==
    \E types \in HookTypeLists, typed \in BOOLEAN, func \in HookFuncs,
       overwrite \in BOOLEAN, decorator \in BOOLEAN :
        LET done == config_getter(GET_CONFIG_REGISTRY, types, typed, func, overwrite, decorator)
        IN  /\ Idle
            /\ GET_CONFIG_REGISTRY' = done.registry
            /\ call' = [NoCall EXCEPT !.op = "config_getter", !.types = types,
                                      !.typed = IF typed THEN "True" ELSE "False",
                                      !.func = func, !.overwrite = overwrite,
                                      !.decorator = decorator,
                                      !.res = IF done.ok THEN Ok(NoneV, sys_modules)
                                              ELSE Raise(done.err, sys_modules)]
            /\ UNCHANGED <<CONTEXTS, CONFIGURE_REGISTRY, sys_modules>>

\* config_setter(*types, func=func, overwrite=overwrite), directly or as a decorator
ConfigSetterCall ==
    \E types \in HookTypeLists, func \in HookFuncs, overwrite \in BOOLEAN, decorator \in BOOLEAN :
        LET done == config_setter(CONFIGURE_REGISTRY, types, func, overwrite, decorator)
        IN  /\ Idle
            /\ CONFIGURE_REGISTRY' = done.registry
            /\ call' = [NoCall EXCEPT !.op = "config_setter", !.types = types,
                                      !.func = func, !.overwrite = overwrite,
                                      !.decorator = decorator,
                                      !.res = IF done.ok THEN Ok(NoneV, sys_modules)
                                              ELSE Raise(done.err, sys_modules)]
            /\ UNCHANGED <<CONTEXTS, GET_CONFIG_REGISTRY, sys_modules>>

(***************************************************************************)
(* Policy changes: the embedder sets a context's flags and adds to its     *)
(* allow / deny sets (the fields Context.__init__ creates).                *)
(***************************************************************************)
Flags == {"all_modules_allowed_by_default", "imported_modules_allowed_by_default",
          "public_classes_allowed_by_default"}

\* the modules and pairs the embedder allows or denies
PolicyModules == {"app", "lib"}
PolicyPairs == {<<"app", "T">>, <<"lib", "K">>}

\* entries added to the four allow / deny sets since the context was created
PolicySize(context) ==
    Cardinality(context.specifically_allowed_modules \ NewContext("").specifically_allowed_modules)
    + Cardinality(context.specifically_denied_modules)
    + Cardinality(context.specifically_allowed_classes \ NewContext("").specifically_allowed_classes)
    + Cardinality(context.specifically_denied_classes)

\* context.<flag> = value
SetFlag ==
    \E context \in DOMAIN CONTEXTS, flag \in Flags, value \in BOOLEAN :
        /\ Idle
        /\ CONTEXTS[context][flag] # value
        /\ CONTEXTS' = [CONTEXTS EXCEPT ![context][flag] = value]
        /\ UNCHANGED <<GET_CONFIG_REGISTRY, CONFIGURE_REGISTRY, sys_modules, call>>

\* context.specifically_allowed_modules.add(module_name)
AllowModule(modules) ==
    \E context \in DOMAIN CONTEXTS, module_name \in modules :
        /\ Idle
        /\ module_name \notin CONTEXTS[context].specifically_allowed_modules
        /\ PolicySize(CONTEXTS[context]) < MaxPolicy
        /\ CONTEXTS' = [CONTEXTS EXCEPT ![context].specifically_allowed_modules = @ \cup {module_name}]
        /\ UNCHANGED <<GET_CONFIG_REGISTRY, CONFIGURE_REGISTRY, sys_modules, call>>

\* context.specifically_denied_modules.add(module_name)
DenyModule(modules) ==
    \E context \in DOMAIN CONTEXTS, module_name \in modules :
        /\ Idle
        /\ module_name \notin CONTEXTS[context].specifically_denied_modules
        /\ PolicySize(CONTEXTS[context]) < MaxPolicy
        /\ CONTEXTS' = [CONTEXTS EXCEPT ![context].specifically_denied_modules = @ \cup {module_name}]
        /\ UNCHANGED <<GET_CONFIG_REGISTRY, CONFIGURE_REGISTRY, sys_modules, call>>

\* context.specifically_allowed_classes.add((module_name, class_name))
AllowClass(pairs) ==
    \E context \in DOMAIN CONTEXTS, pair \in pairs :
        /\ Idle
        /\ pair \notin CONTEXTS[context].specifically_allowed_classes
        /\ PolicySize(CONTEXTS[context]) < MaxPolicy
        /\ CONTEXTS' = [CONTEXTS EXCEPT ![context].specifically_allowed_classes = @ \cup {pair}]
        /\ UNCHANGED <<GET_CONFIG_REGISTRY, CONFIGURE_REGISTRY, sys_modules, call>>

\* context.specifically_denied_classes.add((module_name, class_name))
DenyClass(pairs) ==
    \E context \in DOMAIN CONTEXTS, pair \in pairs :
        /\ Idle
        /\ pair \notin CONTEXTS[context].specifically_denied_classes
        /\ PolicySize(CONTEXTS[context]) < MaxPolicy
        /\ CONTEXTS' = [CONTEXTS EXCEPT ![context].specifically_denied_classes = @ \cup {pair}]
        /\ UNCHANGED <<GET_CONFIG_REGISTRY, CONFIGURE_REGISTRY, sys_modules, call>>

(***************************************************************************)
(* Calls that read the registries.                                         *)
(***************************************************************************)
\* the pairs get_type is called with
ProbePairs == PolicyPairs \cup {<<"app", "U">>, <<"app", "helper">>,
                                <<"builtins", "int">>, <<"builtins", "NoneType">>}

\* context.module_access_is_allowed(module_name)
ModuleAccessCall ==
    \E context \in DOMAIN CONTEXTS, module_name \in Modules :
        /\ Idle
        /\ call' = [NoCall EXCEPT !.op = "module_access_is_allowed", !.context = context,
                                  !.module_name = module_name,
                                  !.res = Ok(BoolV(module_access_is_allowed(
                                                 CONTEXTS[context], sys_modules, module_name)),
                                             sys_modules)]
        /\ UNCHANGED <<CONTEXTS, GET_CONFIG_REGISTRY, CONFIGURE_REGISTRY, sys_modules>>

\* context.get_type(module_name, class_name)
GetTypeCall ==
    \E context \in DOMAIN CONTEXTS, pair \in ProbePairs :
        /\ Idle
        /\ call' = [NoCall EXCEPT !.op = "get_type", !.context = context,
                                  !.module_name = pair[1], !.class_name = pair[2],
                                  !.res =
                              get_type(CONTEXTS[context], sys_modules, pair[1], pair[2])]
        /\ sys_modules' = call'.res.mods
        /\ UNCHANGED <<CONTEXTS, GET_CONFIG_REGISTRY, CONFIGURE_REGISTRY>>

\* box_type(type_, config, context)
BoxTypeCall(types, configs, contexts) ==
    \E type_ \in types, config \in configs, context \in contexts :
        /\ Idle
        /\ call' = [NoCall EXCEPT !.op = "box_type", !.context = context, !.type_ = type_,
                                  !.config = config, !.res =
                              box_type(sys_modules, type_, config, context)]
        /\ sys_modules' = call'.res.mods
        /\ UNCHANGED <<CONTEXTS, GET_CONFIG_REGISTRY, CONFIGURE_REGISTRY>>

\* box_type(type_, boxed, context) for the boxed value box_type just returned
BoxResult ==
    /\ call.op = "box_type" /\ ~call.chained /\ call.res.ok
    /\ call' = [call EXCEPT !.chained = TRUE, !.obj = call.config,
                            !.config = call.res.val, !.res =
                          box_type(sys_modules, call.type_, call.res.val, call.context)]
    /\ sys_modules' = call'.res.mods
    /\ UNCHANGED <<CONTEXTS, GET_CONFIG_REGISTRY, CONFIGURE_REGISTRY>>

\* unbox_type(boxed, context) for the boxed value box_type just returned
UnboxResult ==
    /\ call.op = "box_type" /\ ~call.chained /\ call.res.ok
    /\ call' = [call EXCEPT !.op = "unbox_type", !.chained = TRUE, !.obj = call.config,
                            !.config = call.res.val, !.res =
                          unbox_type(sys_modules, call.res.val, call.context)]
    /\ sys_modules' = call'.res.mods
    /\ UNCHANGED <<CONTEXTS, GET_CONFIG_REGISTRY, CONFIGURE_REGISTRY>>

\* unbox_type(config, context)
UnboxTypeCall(configs, contexts) ==
    \E config \in configs, context \in contexts :
        /\ Idle
        /\ call' = [NoCall EXCEPT !.op = "unbox_type", !.context = context,
                                  !.config = config, !.res =
                              unbox_type(sys_modules, config, context)]
        /\ sys_modules' = call'.res.mods
        /\ UNCHANGED <<CONTEXTS, GET_CONFIG_REGISTRY, CONFIGURE_REGISTRY>>

\* a mutant: get_config creates the context it is given when it is missing
GetConfigCall_adds_context(objs, contexts) ==
    \E obj \in objs, typed \in TypedFlags, context \in contexts :
        /\ Idle
        /\ CONTEXTS' = IF context \in DOMAIN CONTEXTS THEN CONTEXTS
                       ELSE Bind(CONTEXTS, context, NewContext(context))
        /\ call' = [NoCall EXCEPT !.op = "get_config", !.context = context, !.obj = obj,
                                  !.typed = typed, !.res =
                              get_config(sys_modules, obj, typed, context)]
        /\ sys_modules' = call'.res.mods
        /\ UNCHANGED <<GET_CONFIG_REGISTRY, CONFIGURE_REGISTRY>>

\* get_config(obj, typed=typed, context=context)
GetConfigCall(objs, contexts) ==
    \E obj \in objs, typed \in TypedFlags, context \in contexts :
        /\ Idle
        /\ call' = [NoCall EXCEPT !.op = "get_config", !.context = context, !.obj = obj,
                                  !.typed = typed, !.res =
                              get_config(sys_modules, obj, typed, context)]
        /\ sys_modules' = call'.res.mods
        /\ UNCHANGED <<CONTEXTS, GET_CONFIG_REGISTRY, CONFIGURE_REGISTRY>>

\* configure(config, context=context) for the configuration get_config just returned
ConfigureResult(contexts) ==
    \E context \in contexts :
        /\ call.op = "get_config" /\ call.res.ok
        /\ call' = [call EXCEPT !.op = "configure", !.chained = TRUE,
                                !.from_context = call.context, !.context = context,
                                !.config = call.res.val, !.res =
                              configure(sys_modules, call.res.val, NoneV, context)]
        /\ sys_modules' = call'.res.mods
        /\ UNCHANGED <<CONTEXTS, GET_CONFIG_REGISTRY, CONFIGURE_REGISTRY>>

\* configure(config, context=context)
ConfigureCall(configs, contexts) ==
    \E config \in configs, context \in contexts :
        /\ Idle
        /\ call' = [NoCall EXCEPT !.op = "configure", !.context = context,
                                  !.config = config, !.res =
                              configure(sys_modules, config, NoneV, context)]
        /\ sys_modules' = call'.res.mods
        /\ UNCHANGED <<CONTEXTS, GET_CONFIG_REGISTRY, CONFIGURE_REGISTRY>>

\* configure(config, instance, context=context)
ConfigureInstanceCall(configs, instances, contexts) ==
    \E config \in configs, instance \in instances, context \in contexts :
        /\ Idle
        /\ call' = [NoCall EXCEPT !.op = "configure", !.context = context,
                                  !.config = config, !.instance = instance, !.res =
                              configure(sys_modules, config, instance, context)]
        /\ sys_modules' = call'.res.mods
        /\ UNCHANGED <<CONTEXTS, GET_CONFIG_REGISTRY, CONFIGURE_REGISTRY>>

(***************************************************************************)
(* Specifications.                                                         *)
(***************************************************************************)
\* contexts, registration and the dispatch of class instances
Next ==
    \/ GetContextCall
    \/ RegisterCall
    \/ GetConfigCall(Instances, ContextNames)
    \/ ConfigureResult(ContextNames)
    \/ Return

Spec == Init /\ [][Next]_vars

\* the access-control policy of the default context and what it resolves
NextPolicy ==
    \/ SetFlag
    \/ AllowModule(PolicyModules)
    \/ DenyModule(PolicyModules)
    \/ AllowClass(PolicyPairs)
    \/ DenyClass(PolicyPairs)
    \/ ModuleAccessCall
    \/ GetTypeCall
    \/ Return

SpecPolicy == Init /\ [][NextPolicy]_vars

\* registration and policy of one context, and boxing under it
NextLocate ==
    \/ RegisterCall
    \/ SetFlag
    \/ AllowModule({"app"})
    \/ DenyModule({"app"})
    \/ AllowClass({<<"app", "T">>})
    \/ DenyClass({<<"app", "T">>})
    \/ BoxTypeCall(RegisterTypes, {NoneV, BoxV("app", "T", NoneV)}, DOMAIN CONTEXTS)
    \/ BoxResult
    \/ UnboxResult
    \/ Return

SpecLocate == Init /\ [][NextLocate]_vars

\* the hook registry
NextHooks ==
    \/ ConfigGetterCall
    \/ ConfigSetterCall
    \/ Return

SpecHooks == Init /\ [][NextHooks]_vars

\* encoding, decoding and boxing of JSON values under the default context
NextCodec ==
    \/ GetConfigCall(JsonValues, {NoneName})
    \/ ConfigureResult({NoneName})
    \/ ConfigureCall(JsonValues, {NoneName})
    \/ BoxTypeCall({"NoneType", "int", "dict", "T"}, JsonValues, {NoneName})
    \/ BoxResult
    \/ UnboxResult
    \/ UnboxTypeCall(JsonValues, {NoneName})
    \/ Return

SpecCodec == Init /\ [][NextCodec]_vars

\* the configurations configure is given together with an existing instance,
\* and the existing instances
DispatchConfigs ==
    {IntV(0), StrV("a"), ListV(<<IntV(0)>>),
     BoxV("builtins", "int", IntV(0)), BoxV("builtins", "int", StrV("a")),
     BoxV("builtins", "tuple", ListV(<<IntV(0)>>)),
     BoxV("app", "P", NoneV), BoxV("app", "T", DictV([k \in {"x"} |-> IntV(0)]))}
DispatchInstances ==
    {NoneV, IntV(1), BoolV(TRUE), StrV("a"), TupleV(<<>>),
     InstV("P", [k \in {"x"} |-> IntV(1)]), InstV("T", [k \in {"x"} |-> IntV(1)])}

\* the dispatch of configure: registered types, decoder hooks, existing instances
NextDispatch ==
    \/ RegisterCall
    \/ ConfigSetterCall
    \/ ConfigureInstanceCall(DispatchConfigs, DispatchInstances, {NoneName})
    \/ Return

SpecDispatch == Init /\ [][NextDispatch]_vars

\* instances of the AutoConfigured classes whose property holds a JSON value
AutoInstances ==
    {InstV("T", [k \in {"x"} |-> v]) : v \in Level1} \cup {InstV("U", EmptyMap)}

\* registration in the default context and the round trip of AutoConfigured
\* instances under it
NextAuto ==
    \/ RegisterCall
    \/ GetConfigCall(AutoInstances, {NoneName})
    \/ ConfigureResult({NoneName})
    \/ Return

SpecAuto == Init /\ [][NextAuto]_vars

\* instances of the class that declares a property type, and configurations
\* of it written with the plain entry
TypedInstances ==
    {InstV("D", [k \in {"x"} |-> v]) : v \in {IntV(0), IntV(1), BoolV(TRUE), StrV("a"), NoneV}}
TypedConfigs ==
    {config : config \in {DictV([k \in {"x"} |-> v]) : v \in {IntV(0), IntV(1), StrV("a")}}}
    \cup {BoxV("app", "D", DictV([k \in {"x"} |-> v])) : v \in {IntV(0), IntV(1), StrV("a")}}

\* encoding and decoding of a class with a declared property type under the
\* default context, which registers the class or allows it by policy
NextTyped ==
    \/ RegisterCall
    \/ AllowClass({<<"app", "D">>})
    \/ GetConfigCall(TypedInstances, {NoneName})
    \/ ConfigureResult({NoneName})
    \/ ConfigureCall(TypedConfigs, {NoneName})
    \/ Return

SpecTyped == Init /\ [][NextTyped]_vars

\* values encoded under the named context: a mapping with a non-string key,
\* alone and nested in a list, in a mapping and in an instance
NamedContext == "alt"
IntKeyed == DictItemsV(<<TupleV(<<IntV(0), IntV(1)>>)>>)
ContextValues ==
    {IntV(0), IntKeyed, ListV(<<IntKeyed>>), DictV([k \in {"a"} |-> IntKeyed]),
     DictV([k \in {"a"} |-> IntV(0)]), InstV("T", [k \in {"x"} |-> IntKeyed]),
     InstV("T", [k \in {"x"} |-> NoneV])}

\* configurations decoded under the named context: sequences of
\* [key, value] pairs boxed as dict, well formed or not, and a boxed instance
PairsConfig(pairs) == BoxV("builtins", "dict", ListV(pairs))
ContextConfigs ==
    {PairsConfig(<<>>),
     PairsConfig(<<ListV(<<IntV(0), IntV(1)>>)>>),
     PairsConfig(<<ListV(<<StrV("a"), IntV(1)>>)>>),
     PairsConfig(<<ListV(<<IntV(0), IntV(1)>>), ListV(<<BoolV(FALSE), StrV("a")>>)>>),
     PairsConfig(<<ListV(<<IntV(0)>>)>>),
     PairsConfig(<<IntV(0)>>),
     PairsConfig(<<ListV(<<ListV(<<>>), IntV(1)>>)>>),
     PairsConfig(<<ListV(<<IntV(0), BoxV("app", "T", DictV([k \in {"x"} |-> IntV(1)]))>>)>>),
     BoxV("app", "T", DictV([k \in {"x"} |-> IntV(1)]))}

\* context.specifically_denied_classes.add((module_name, class_name)) for a
\* context other than the one of the last call, whose result the caller
\* still holds
DenyClassElsewhere(pairs) ==
    \E context \in DOMAIN CONTEXTS \ {call.context}, pair \in pairs :
        /\ call.op \in {"get_config", "configure"}
        /\ pair \notin CONTEXTS[context].specifically_denied_classes
        /\ PolicySize(CONTEXTS[context]) < MaxPolicy
        /\ CONTEXTS' = [CONTEXTS EXCEPT ![context].specifically_denied_classes = @ \cup {pair}]
        /\ UNCHANGED <<GET_CONFIG_REGISTRY, CONFIGURE_REGISTRY, sys_modules, call>>

\* the last call made again with the same arguments:
\* get_config(obj, typed=typed, context=context) or configure(config, context=context)
RepeatCall ==
    /\ call.op \in {"get_config", "configure"}
    /\ call' = [call EXCEPT !.res =
                    IF call.op = "get_config"
                    THEN get_config(sys_modules, call.obj, call.typed, call.context)
                    ELSE configure(sys_modules, call.config, NoneV, call.context)]
    /\ sys_modules' = call'.res.mods
    /\ UNCHANGED <<CONTEXTS, GET_CONFIG_REGISTRY, CONFIGURE_REGISTRY>>

\* two contexts with their own registrations, encoding and decoding under
\* the named one, and the same call again after the policy of the other
\* context changed
NextContext ==
    \/ GetContextCall
    \/ RegisterCall
    \/ GetConfigCall(ContextValues, {NamedContext})
    \/ ConfigureResult({NamedContext})
    \/ ConfigureCall(ContextConfigs, {NamedContext})
    \/ DenyClassElsewhere({<<"builtins", "dict">>, <<"app", "T">>})
    \/ RepeatCall
    \/ Return

SpecContext == Init /\ [][NextContext]_vars

\* no call of the model needs a conversion the model leaves out
AllModelled == call.res.err # "Unmodelled"

(***************************************************************************)
(* Properties.                                                             *)
(***************************************************************************)
\* the registry of a context maps some pair to type_
Registered(context, type_) ==
    \E key \in DOMAIN context.registry : context.registry[key] = type_

\* a nested value whose round trip goes through lists and mappings
NestedValue == ListV(<<DictV([k \in {"a"} |-> IntV(0)])>>)

\* C1 (as amended): under the default context get_config(v) == v for every
\* JSON value v, and configure(get_config(v)) == v and configure(v) == v for
\* every JSON value v in which no mapping has exactly the three keys
\* __module__, __class__, __instance__.
C1_RoundTrip ==
    /\ (call.op = "get_config" /\ call.typed = "None")
           => (call.res.ok /\ PyEq(call.res.val, call.obj))
    /\ (call.op = "configure" /\ call.chained /\ call.typed = "None" /\ ~HasBoxShape(call.obj))
           => (call.res.ok /\ PyEq(call.res.val, call.obj))
    /\ (call.op = "configure" /\ ~call.chained /\ ~HasBoxShape(call.config))
           => (call.res.ok /\ PyEq(call.res.val, call.config))

\* C1 witness: a list holding a mapping went through get_config and configure
C1_Witness ==
    /\ call.op = "configure" /\ call.chained /\ call.typed = "None"
    /\ call.obj = NestedValue
    /\ call.res.ok /\ PyEq(call.res.val, NestedValue)

\* C1 as stated: the round trip is the identity for every JSON value,
\* whatever the keys of its mappings.
C1_Original ==
    /\ (call.op = "get_config" /\ call.typed = "None")
           => (call.res.ok /\ PyEq(call.res.val, call.obj))
    /\ (call.op = "configure" /\ call.chained /\ call.typed = "None")
           => (call.res.ok /\ PyEq(call.res.val, call.obj))
    /\ (call.op = "configure" /\ ~call.chained)
           => (call.res.ok /\ PyEq(call.res.val, call.config))

\* the type is registered in context "alt" and in no other context
RegisteredOnlyInAlt(type_) ==
    /\ "alt" \in DOMAIN CONTEXTS
    /\ \A c \in DOMAIN CONTEXTS : Registered(CONTEXTS[c], type_) <=> c = "alt"

\* C2: for an instance of a Configurable class registered only in context
\* "alt", get_config under the default context fails with the access-denied
\* error and succeeds under "alt"; configure of the configuration made under
\* "alt" fails with the access-denied error under the default context and
\* succeeds under "alt".
C2_AccessAcrossContexts ==
    (/\ call.op \in {"get_config", "configure"}
     /\ call.typed = "None"
     /\ call.op = "configure" => call.chained /\ call.from_context = "alt"
     /\ IsConfigurableClass(call.obj.t)
     /\ RegisteredOnlyInAlt(call.obj.t))
        => IF call.context = "alt" THEN call.res.ok
           ELSE ~call.res.ok /\ IsAccessDenied(call.res.err)

\* the answer the stated decision procedure gives for module reachability
ModuleReachable(context, mods, module_name) ==
    IF module_name \in context.specifically_denied_modules THEN FALSE
    ELSE IF module_name \in context.specifically_allowed_modules THEN TRUE
    ELSE \/ context.all_modules_allowed_by_default
         \/ context.imported_modules_allowed_by_default /\ module_name \in mods

\* the answer the stated decision procedure gives for a pair
ResolveAllowed(context, mods, module_name, class_name) ==
    IF \/ <<module_name, class_name>> \in context.specifically_denied_classes
       \/ module_name \in context.specifically_denied_modules
    THEN FALSE
    ELSE IF \/ <<module_name, class_name>> \in context.specifically_allowed_classes
            \/ module_name \in context.specifically_allowed_modules
         THEN TRUE
    ELSE /\ context.public_classes_allowed_by_default
         /\ ModuleReachable(context, mods, module_name)
         /\ class_name \in get_public_names(module_name)

\* C3: for a pair that names a class of its module and is not in the
\* registry, get_type fails with the access-denied error when the pair or its
\* module is specifically denied; otherwise succeeds when the pair or its
\* module is specifically allowed; otherwise succeeds exactly when public
\* classes are allowed by default, the module is reachable and the class name
\* is a public name of the module.
C3_ResolvePrecedence ==
    [][(/\ Idle
        /\ call'.op = "get_type"
        /\ call'.class_name \in ModuleTypes(call'.module_name)
        /\ <<call'.module_name, call'.class_name>> \notin DOMAIN CONTEXTS[call'.context].registry)
           => IF ResolveAllowed(CONTEXTS[call'.context], sys_modules,
                                call'.module_name, call'.class_name)
              THEN call'.res.ok /\ call'.res.ty = call'.class_name
              ELSE ~call'.res.ok /\ IsAccessDenied(call'.res.err)]_vars

\* C4: module_access_is_allowed is false for a specifically denied module,
\* true for a specifically allowed one that is not denied, and otherwise
\* true exactly when all modules are allowed by default, or imported modules
\* are allowed by default and the module is loaded.
C4_ModuleReachability ==
    call.op = "module_access_is_allowed"
        => call.res.val = BoolV(ModuleReachable(CONTEXTS[call.context], sys_modules,
                                                call.module_name))

\* the (module, class) pair a register call binds
RegisterKey(made) ==
    <<IF made.module_name = NoneName THEN TypeModule(made.type_) ELSE made.module_name,
      IF made.class_name = NoneName THEN TypeName(made.type_) ELSE made.class_name>>

\* this step is a register call on a pair the context already binds
RegisterOnBoundPair ==
    /\ Idle
    /\ call'.op = "register"
    /\ RegisterKey(call') \in DOMAIN CONTEXTS[call'.context].registry

\* C5: register without overwrite on a pair bound to a different type fails
\* with NamingConflict and leaves the registry and the type-to-pair map of
\* the context as they were; register without overwrite of the type the pair
\* is already bound to does not fail.
C5_RegisterConflict ==
    [][(RegisterOnBoundPair /\ ~call'.overwrite)
           => IF CONTEXTS[call'.context].registry[RegisterKey(call')] # call'.type_
              THEN /\ ~call'.res.ok
                   /\ call'.res.err = NamingConflict
                   /\ CONTEXTS'[call'.context].registry = CONTEXTS[call'.context].registry
                   /\ CONTEXTS'[call'.context].location_map = CONTEXTS[call'.context].location_map
              ELSE /\ call'.res.ok
                   /\ CONTEXTS'[call'.context].registry = CONTEXTS[call'.context].registry]_vars

\* C5 witness: a register call without overwrite was refused for a pair that
\* stays bound to another type
C5_Witness ==
    /\ call.op = "register" /\ ~call.overwrite
    /\ call.res.err = NamingConflict
    /\ RegisterKey(call) \in DOMAIN CONTEXTS[call.context].registry
    /\ CONTEXTS[call.context].registry[RegisterKey(call)] # call.type_

\* C6: register with overwrite on a pair bound to another type T succeeds;
\* afterwards get_type of the pair returns the new type, and T is no longer
\* bound to the pair in the registry or in the type-to-pair map.
C6_RegisterOverwrite ==
    [][(/\ RegisterOnBoundPair
        /\ call'.overwrite
        /\ CONTEXTS[call'.context].registry[RegisterKey(call')] # call'.type_)
           => /\ call'.res.ok
              /\ get_type(CONTEXTS'[call'.context], sys_modules,
                          RegisterKey(call')[1], RegisterKey(call')[2]).ty = call'.type_
              /\ LET T == CONTEXTS[call'.context].registry[RegisterKey(call')]
                     location_map == CONTEXTS'[call'.context].location_map
                 IN  T \in DOMAIN location_map => location_map[T] # RegisterKey(call')]_vars

\* this step is a hook registration for types of which one has an entry
HookOnTakenType(op, registry) ==
    /\ Idle
    /\ call'.op = op
    /\ \E i \in 1..Len(call'.types) : call'.types[i] \in DOMAIN registry

\* C7: config_getter and config_setter for a type that has an entry fail with
\* NamingConflict and leave the hook registry unchanged when overwrite is
\* false, and replace the entry when overwrite is true, in the direct form
\* and in the decorator form.
C7_HookOverwrite ==
    [][/\ HookOnTakenType("config_getter", GET_CONFIG_REGISTRY)
           => IF ~call'.overwrite
              THEN /\ ~call'.res.ok /\ call'.res.err = NamingConflict
                   /\ GET_CONFIG_REGISTRY' = GET_CONFIG_REGISTRY
              ELSE /\ call'.res.ok
                   /\ \A i \in 1..Len(call'.types) :
                          GET_CONFIG_REGISTRY'[call'.types[i]].func = call'.func
       /\ HookOnTakenType("config_setter", CONFIGURE_REGISTRY)
           => IF ~call'.overwrite
              THEN /\ ~call'.res.ok /\ call'.res.err = NamingConflict
                   /\ CONFIGURE_REGISTRY' = CONFIGURE_REGISTRY
              ELSE /\ call'.res.ok
                   /\ \A i \in 1..Len(call'.types) :
                          CONFIGURE_REGISTRY'[call'.types[i]] = call'.func]_vars

\* the value is boxed with the tag of a (module, class) pair
BoxedAs(value, pair) ==
    /\ IsBoxed(value)
    /\ value.map["__module__"] = StrV(pair[1])
    /\ value.map["__class__"] = StrV(pair[2])

\* C8: when box_type(T, c) succeeds, box_type(T, box_type(T, c)) succeeds and
\* equals box_type(T, c), and a c already boxed with the tag of T is
\* returned unchanged.
C8_BoxIdempotent ==
    /\ (call.op = "box_type" /\ call.chained)
           => (call.res.ok /\ call.res.val = call.config)
    /\ (call.op = "box_type" /\ ~call.chained /\ call.res.ok
        /\ IsBoxed(call.config) /\ BoxedAs(call.res.val, <<call.config.map["__module__"].s,
                                                             call.config.map["__class__"].s>>))
           => call.res.val = call.config

\* C8 witness: a registered type boxed its own boxed value a second time
C8_Witness ==
    /\ call.op = "box_type" /\ call.chained /\ call.res.ok
    /\ call.type_ \in UserTypes
    /\ ~IsBoxed(call.obj)
    /\ call.res.val = call.config

\* C9: when box_type(T, c, context) succeeds for a c that is not boxed,
\* unbox_type of the result in the same context succeeds and returns (T, c).
C9_BoxedCanBeUnboxed ==
    (call.op = "unbox_type" /\ call.chained /\ ~IsBoxed(call.obj))
        => (call.res.ok /\ call.res.ty = call.type_ /\ call.res.val = call.obj)

\* C9 witness: a type registered under custom names was boxed and unboxed
C9_Witness ==
    /\ call.op = "unbox_type" /\ call.chained /\ ~IsBoxed(call.obj)
    /\ call.type_ \in DOMAIN CONTEXTS[call.context].location_map
    /\ CONTEXTS[call.context].location_map[call.type_] = <<"cfg", "X">>
    /\ call.res.ok /\ call.res.ty = call.type_

\* C10: for a JSON value v in which no mapping has the three box keys,
\* get_config(v, typed=True) succeeds and returns v boxed with the tag of its
\* type, get_config(v, typed=False) succeeds and returns a value that is not
\* boxed, and with typed unset the result for an instance of a Configurable
\* class is boxed.
C10_TypedFlag ==
    (call.op = "get_config" /\ ~HasBoxShape(call.obj))
        => CASE call.typed = "True" ->
                    /\ call.res.ok
                    /\ BoxedAs(call.res.val, <<TypeModule(call.obj.t), TypeName(call.obj.t)>>)
             [] call.typed = "False" -> call.res.ok /\ ~IsBoxed(call.res.val)
             [] OTHER -> (IsConfigurableClass(call.obj.t) /\ call.res.ok) => IsBoxed(call.res.val)

\* the target type of a configure call and the configuration inside the box
Target(made) == unbox_type(sys_modules, made.config, made.context)

\* the decoder of the type is a function the user registered
HasUserDecoder(type_) ==
    /\ ~IsConfigurableClass(type_)
    /\ type_ \in DOMAIN CONFIGURE_REGISTRY
    /\ CONFIGURE_REGISTRY[type_] \in HookFuncs

\* C11: configure(config, existing) with a config that unboxes to a target
\* type fails with NotConfigurable when the type is not Configurable and has
\* no decoder hook of its own, and otherwise returns only instances of the
\* target type; a decoder the user registered receives the existing instance
\* when that is an instance of the target type (and returns it), and none
\* otherwise (the result is then the configuration, converted if necessary).
C11_ConfigureDispatch ==
    (call.op = "configure" /\ ~call.chained /\ Target(call).ok)
        => /\ IF ~IsConfigurableClass(Target(call).ty)
                 /\ Target(call).ty \notin DOMAIN CONFIGURE_REGISTRY
              THEN ~call.res.ok /\ call.res.err = NotConfigurable
              ELSE /\ call.res.err # NotConfigurable
                   /\ call.res.ok => IsInstance(call.res.val, Target(call).ty)
           /\ HasUserDecoder(Target(call).ty)
                  => IF IsInstance(call.instance, Target(call).ty)
                     THEN call.res.ok /\ call.res.val = call.instance
                     ELSE call.res = configure_converted(Target(call).ty,
                                                         Ok(Target(call).val, sys_modules))

\* C11 witness: an existing instance of another type was discarded, and the
\* user's decoder for int returned the configuration
C11_Witness ==
    /\ call.op = "configure" /\ ~call.chained
    /\ call.config = BoxV("builtins", "int", IntV(0))
    /\ call.instance = InstV("T", [k \in {"x"} |-> IntV(1)])
    /\ HasUserDecoder("int")
    /\ call.res.ok /\ call.res.val = IntV(0)

\* C12: a call of get_config or configure, whether it returns or raises,
\* leaves the hook registry, the set of contexts and every context's
\* registry, type-to-pair map and access-control policy as they were.
C12_ReadOnly ==
    [][call'.op \in {"get_config", "configure"}
           => /\ CONTEXTS' = CONTEXTS
              /\ GET_CONFIG_REGISTRY' = GET_CONFIG_REGISTRY
              /\ CONFIGURE_REGISTRY' = CONFIGURE_REGISTRY]_vars

\* C12 witness: get_config was called with a context that does not exist,
\* failed, and the context still does not exist
C12_Witness ==
    /\ call.op = "get_config"
    /\ call.context = "alt"
    /\ ~call.res.ok
    /\ "alt" \notin DOMAIN CONTEXTS

\* the mapping AutoConfigured.get_config is to build for an instance: each
\* public property name with the encoded value of the property
PropertyConfigs(instance, context) ==
    DictV([k \in {n \in DOMAIN instance.map : ~IsPrivate(n)} |->
              get_config(sys_modules, instance.map[k], "None", context).val])

\* the instance has the type and, property by property, the values of other
SameProperties(instance, other) ==
    /\ instance.t = other.t
    /\ DOMAIN instance.map = DOMAIN other.map
    /\ \A k \in DOMAIN other.map : PyEq(instance.map[k], other.map[k])

\* C13: for an instance of an AutoConfigured class registered in the context,
\* whose properties hold JSON values without box-shaped mappings, get_config
\* returns the mapping of each public property name to the property's
\* encoded value inside the box of the type, and configure of that result
\* returns an instance of the type with equal properties.
C13_AutoSymmetry ==
    (/\ call.op \in {"get_config", "configure"}
     /\ call.typed = "None"
     /\ IsConfigurableClass(call.obj.t)
     /\ ~HasBoxShape(call.obj)
     /\ Registered(CONTEXTS[call.context], call.obj.t))
        => IF call.op = "get_config"
           THEN /\ call.res.ok
                /\ IsBoxed(call.res.val)
                /\ call.res.val.map["__instance__"] = PropertyConfigs(call.obj, call.context)
           ELSE call.res.ok /\ SameProperties(call.res.val, call.obj)

\* C14: under the default context, get_config of an instance of a
\* Configurable class that the context cannot locate raises ValueError, and
\* configure of a configuration made under "alt" whose tag the default
\* context cannot resolve raises ValueError.
C14_AccessDeniedKind ==
    /\ (/\ call.op = "get_config" /\ call.context = NoneName /\ call.typed = "None"
        /\ IsConfigurableClass(call.obj.t)
        /\ ~locate(CONTEXTS[NoneName], sys_modules, call.obj.t).ok)
           => (~call.res.ok /\ call.res.err = AccessDeniedValue)
    /\ (/\ call.op = "configure" /\ call.context = NoneName /\ call.chained
        /\ call.from_context = "alt"
        /\ ~Target(call).ok)
           => (~call.res.ok /\ call.res.err = AccessDeniedValue)

RECURSIVE JsonCompatible(_)
\* the value is null, a boolean, a number, a string, or a list or a
\* string-keyed mapping of such
JsonCompatible(value) ==
    \/ value.t \in {"NoneType", "bool", "int", "float", "str"}
    \/ value.t = "list" /\ \A i \in 1..Len(value.items) : JsonCompatible(value.items[i])
    \/ value.t = "dict" /\ \A k \in DOMAIN value.map : JsonCompatible(value.map[k])

\* the property mapping inside an encoded instance
PropertyMapping(config) ==
    IF IsBoxed(config) THEN config.map["__instance__"].map ELSE config.map

\* C15: for an instance of a class that declares the type int for its
\* property x, holding an int there, the entry get_config stores for x is a
\* JSON-compatible value without a type tag, and configure of the encoded
\* mapping returns an instance whose x equals the original's.
C15_DeclaredPropertyTypes ==
    (/\ call.op \in {"get_config", "configure"}
     /\ call.op = "configure" => call.chained
     /\ get_property_type(call.obj.t, "x") # NoneName
     /\ IsInstance(call.obj.map["x"], get_property_type(call.obj.t, "x")))
        => IF call.op = "get_config"
           THEN call.res.ok => /\ JsonCompatible(PropertyMapping(call.res.val)["x"])
                               /\ ~IsBoxed(PropertyMapping(call.res.val)["x"])
           ELSE call.res.ok /\ SameProperties(call.res.val, call.obj)

\* two results are the same value or the same error
SameOutcome(a, b) == a.ok = b.ok /\ a.err = b.err /\ a.val = b.val

\* while the caller holds the result of a call, the context of the call, the
\* hook registry and sys.modules stay as they are: only other contexts change
HeldCallKeepsContext ==
    [][(call.op \in {"get_config", "configure"} /\ call'.op = call.op
        /\ call.context \in DOMAIN CONTEXTS)
          => /\ call.context \in DOMAIN CONTEXTS'
             /\ CONTEXTS'[call.context] = CONTEXTS[call.context]
             /\ UNCHANGED <<GET_CONFIG_REGISTRY, CONFIGURE_REGISTRY>>]_vars

\* C16: encoding and decoding under a named context depend on no other
\* context. A call of get_config(v, context=C) or configure(c, context=C)
\* made again with the same arguments, after only contexts other than C (the
\* default one included) changed and C and the hook registry stayed as they
\* were, gives the same value or the same error, mappings with non-string
\* keys included.
C16_ContextPropagation ==
    [][(/\ call.op \in {"get_config", "configure"}
        /\ call.context = NamedContext
        /\ NamedContext \in DOMAIN CONTEXTS
        /\ call'.op = call.op
        /\ [call' EXCEPT !.res = call.res] = call)
          => SameOutcome(call.res, call'.res)]_vars

====
